---- MODULE Spec2Model ----
(***************************************************************************)
(* The agentic tool-calling orchestrator of Noor Chat                      *)
(* (naturalLanguageQueryOrchestrator in src/src/app/api/query/route.ts)    *)
(* together with the QueryEngine it dispatches to (src/unnamed/part_009).  *)
(*                                                                         *)
(* JavaScript values are tagged records; a text is the sequence of its     *)
(* JSON lexemes (punctuation, string literals, numbers, bare words and     *)
(* white space), so that JSON.stringify, JSON.parse and join('\n') are     *)
(* computed on it; an SQL statement or a table name is spelled out in      *)
(* characters where the code trims, lower-cases or compares its prefix.    *)
(***************************************************************************)
EXTENDS Integers, Sequences, FiniteSets, TLC

(***************************************************************************)
(* JavaScript values                                                       *)
(***************************************************************************)
Undefined == [t |-> "undefined"]
JNull == [t |-> "null"]
JBool(b) == [t |-> "boolean", v |-> b]
JNum(n) == [t |-> "number", v |-> n]
JStr(s) == [t |-> "string", v |-> s]
JArr(elems) == [t |-> "array", v |-> elems]
\* a string given by its lexemes (a response text, a tool result)
JText(text) == [t |-> "text", v |-> text]
\* an object is the ordered sequence of its <<key, value>> properties
JObj(props) == [t |-> "object", v |-> props]

\* obj[key] of JavaScript: the last property of that name, undefined when
\* there is none or when obj is not an object
RECURSIVE GetFrom(_, _, _)
GetFrom(props, key, i) ==
    IF i = 0 THEN Undefined
    ELSE IF props[i][1] = key THEN props[i][2]
    ELSE GetFrom(props, key, i - 1)

Get(obj, key) ==
    IF obj.t = "object" THEN GetFrom(obj.v, key, Len(obj.v)) ELSE Undefined

\* obj.key throws a TypeError exactly when obj is undefined or null
ThrowsOnAccess(obj) == obj.t \in {"undefined", "null"}

(***************************************************************************)
(* Texts: sequences of lexemes                                             *)
(***************************************************************************)
\* k: the kind of lexeme, s: its spelling, n: the value of a number
Tok(k, s, n) == [k |-> k, s |-> s, n |-> n]
LBrace == Tok("{", "", 0)
RBrace == Tok("}", "", 0)
LBracket == Tok("[", "", 0)
RBracket == Tok("]", "", 0)
Comma == Tok(",", "", 0)
Colon == Tok(":", "", 0)
Newline == Tok("ws", "\n", 0)
StrTok(s) == Tok("str", s, 0)
NumTok(n) == Tok("num", "", n)
LitTok(s) == Tok("lit", s, 0)
\* a run of characters that is no JSON lexeme
Word(s) == Tok("word", s, 0)

RECURSIVE JoinProps(_, _), JoinElems(_, _), Stringify(_)
\* JSON.stringify of a value built from objects, arrays, numbers, booleans,
\* null and strings that are not given by their lexemes
Stringify(val) ==
    CASE val.t = "string" -> <<StrTok(val.v)>>
      [] val.t = "number" -> <<NumTok(val.v)>>
      [] val.t = "boolean" -> <<LitTok(IF val.v THEN "true" ELSE "false")>>
      [] val.t = "array" -> <<LBracket>> \o JoinElems(val.v, 1) \o <<RBracket>>
      [] val.t = "object" ->
            <<LBrace>>
            \o JoinProps(SelectSeq(val.v, LAMBDA p : p[2].t # "undefined"), 1)
            \o <<RBrace>>
      [] val.t \in {"null", "undefined"} -> <<LitTok("null")>>

JoinProps(props, i) ==
    IF i > Len(props) THEN <<>>
    ELSE (IF i > 1 THEN <<Comma>> ELSE <<>>)
         \o <<StrTok(props[i][1]), Colon>> \o Stringify(props[i][2])
         \o JoinProps(props, i + 1)

\* an undefined array element is written null
JoinElems(elems, i) ==
    IF i > Len(elems) THEN <<>>
    ELSE (IF i > 1 THEN <<Comma>> ELSE <<>>)
         \o Stringify(elems[i]) \o JoinElems(elems, i + 1)

ParseFail == [ok |-> FALSE, val |-> Undefined, next |-> 0]
Parsed(val, next) == [ok |-> TRUE, val |-> val, next |-> next]

RECURSIVE ParseValue(_, _), ParseMembers(_, _, _), ParseElements(_, _, _)
\* the JSON value starting at lexeme i of toks (white space removed)
ParseValue(toks, i) ==
    IF i > Len(toks) THEN ParseFail
    ELSE LET tk == toks[i] IN
        CASE tk.k = "str" -> Parsed(JStr(tk.s), i + 1)
          [] tk.k = "num" -> Parsed(JNum(tk.n), i + 1)
          [] tk.k = "lit" ->
                Parsed(IF tk.s = "null" THEN JNull ELSE JBool(tk.s = "true"), i + 1)
          [] tk.k = "{" ->
                IF i + 1 <= Len(toks) /\ toks[i + 1].k = "}"
                THEN Parsed(JObj(<<>>), i + 2)
                ELSE ParseMembers(toks, i + 1, <<>>)
          [] tk.k = "[" ->
                IF i + 1 <= Len(toks) /\ toks[i + 1].k = "]"
                THEN Parsed(JArr(<<>>), i + 2)
                ELSE ParseElements(toks, i + 1, <<>>)
          [] OTHER -> ParseFail

ParseMembers(toks, i, acc) ==
    IF i + 1 > Len(toks) \/ toks[i].k # "str" \/ toks[i + 1].k # ":"
    THEN ParseFail
    ELSE LET r == ParseValue(toks, i + 2) IN
        IF ~r.ok \/ r.next > Len(toks) THEN ParseFail
        ELSE LET props == Append(acc, <<toks[i].s, r.val>>) IN
            CASE toks[r.next].k = "}" -> Parsed(JObj(props), r.next + 1)
              [] toks[r.next].k = "," -> ParseMembers(toks, r.next + 1, props)
              [] OTHER -> ParseFail

ParseElements(toks, i, acc) ==
    LET r == ParseValue(toks, i) IN
        IF ~r.ok \/ r.next > Len(toks) THEN ParseFail
        ELSE LET elems == Append(acc, r.val) IN
            CASE toks[r.next].k = "]" -> Parsed(JArr(elems), r.next + 1)
              [] toks[r.next].k = "," -> ParseElements(toks, r.next + 1, elems)
              [] OTHER -> ParseFail

\* JSON.parse(text): ok is FALSE where JSON.parse throws a SyntaxError
JSONParse(text) ==
    LET toks == SelectSeq(text, LAMBDA tk : tk.k # "ws")
        r == ParseValue(toks, 1)
    IN IF r.ok /\ r.next = Len(toks) + 1 THEN r ELSE ParseFail

\* texts.filter(Boolean).join('\n'): the empty and the absent texts are
\* dropped and a newline is put between the remaining ones
RECURSIVE JoinLines(_)
JoinLines(texts) ==
    LET kept == SelectSeq(texts, LAMBDA s : s # <<>>) IN
        IF kept = <<>> THEN <<>>
        ELSE IF Len(kept) = 1 THEN kept[1]
        ELSE kept[1] \o <<Newline>> \o JoinLines(Tail(kept))

(***************************************************************************)
(* Strings spelled out in characters                                       *)
(***************************************************************************)
\* the characters of the strings the code inspects character by character
CharsOf(s) ==
    CASE s = "select 1" -> <<"s", "e", "l", "e", "c", "t", " ", "1">>
      [] s = " \tSeLeCt 1\n" ->
            <<" ", "\t", "S", "e", "L", "e", "C", "t", " ", "1", "\n">>
      [] s = "With x" -> <<"W", "i", "t", "h", " ", "x">>
      [] s = "withdraw" -> <<"w", "i", "t", "h", "d", "r", "a", "w">>
      [] s = "DROP TABLE x" ->
            <<"D", "R", "O", "P", " ", "T", "A", "B", "L", "E", " ", "x">>
      [] s = "selec" -> <<"s", "e", "l", "e", "c">>
      [] s = "(select 1)" -> <<"(", "s", "e", "l", "e", "c", "t", " ", "1", ")">>
      [] s = "-- \nselect 1" ->
            <<"-", "-", " ", "\n", "s", "e", "l", "e", "c", "t", " ", "1">>
      [] s = " " -> <<" ">>
      [] s = "orders" -> <<"o", "r", "d", "e", "r", "s">>
      [] s = "ORDERS" -> <<"O", "R", "D", "E", "R", "S">>
      [] s = "Customers" -> <<"C", "u", "s", "t", "o", "m", "e", "r", "s">>
      [] s = "customers" -> <<"c", "u", "s", "t", "o", "m", "e", "r", "s">>
      [] s = "order" -> <<"o", "r", "d", "e", "r">>
      [] s = "order_items" ->
            <<"o", "r", "d", "e", "r", "_", "i", "t", "e", "m", "s">>
      [] s = "nosuch" -> <<"n", "o", "s", "u", "c", "h">>
      [] s = "" -> <<>>

UpperCase ==
    <<"A", "B", "C", "D", "E", "F", "G", "H", "I", "J", "K", "L", "M",
      "N", "O", "P", "Q", "R", "S", "T", "U", "V", "W", "X", "Y", "Z">>
LowerCase ==
    <<"a", "b", "c", "d", "e", "f", "g", "h", "i", "j", "k", "l", "m",
      "n", "o", "p", "q", "r", "s", "t", "u", "v", "w", "x", "y", "z">>
WhiteSpace == {" ", "\t", "\n", "\r"}

\* String.prototype.toLowerCase
ToLowerCase(chars) ==
    [i \in 1..Len(chars) |->
        IF \E j \in 1..26 : UpperCase[j] = chars[i]
        THEN LowerCase[CHOOSE j \in 1..26 : UpperCase[j] = chars[i]]
        ELSE chars[i]]

\* String.prototype.trim
RECURSIVE TrimStart(_), TrimEnd(_)
TrimStart(chars) ==
    IF chars # <<>> /\ Head(chars) \in WhiteSpace THEN TrimStart(Tail(chars))
    ELSE chars
TrimEnd(chars) ==
    IF chars # <<>> /\ chars[Len(chars)] \in WhiteSpace
    THEN TrimEnd(SubSeq(chars, 1, Len(chars) - 1))
    ELSE chars
Trim(chars) == TrimEnd(TrimStart(chars))

\* String.prototype.startsWith
StartsWith(chars, prefix) ==
    Len(chars) >= Len(prefix) /\ SubSeq(chars, 1, Len(prefix)) = prefix

(***************************************************************************)
(* QueryEngine                                                             *)
(***************************************************************************)
SchemaEntry(table) ==
    JObj(<< <<"schema", JStr("public")>>, <<"table", JStr(table)>>,
            <<"columns", JArr(<<JObj(<< <<"name", JStr("id")>> >>)>>)>> >>)

\* this.detailedSchema and this.worldviewMap once loadSchemaAssets has run
detailedSchema ==
    <<SchemaEntry("orders"), SchemaEntry("Customers"), SchemaEntry("order_items")>>
worldviewMap == JObj(<< <<"nodes", JArr(<<JStr("orders"), JStr("Customers")>>)>> >>)

getDetailedSchemaFromRepository_CaseSensitive(tables) ==
    IF tables.t # "array" \/ \E i \in 1..Len(tables.v) : tables.v[i].t # "string"
    THEN [threw |-> TRUE, val |-> Undefined]
    ELSE [threw |-> FALSE,
          val |-> JArr(SelectSeq(detailedSchema, LAMBDA tableInfo :
                    \E i \in 1..Len(tables.v) :
                        CharsOf(tables.v[i].v) = CharsOf(Get(tableInfo, "table").v)))]
getDetailedSchemaFromRepository_Prefix(tables) ==
    IF tables.t # "array" \/ \E i \in 1..Len(tables.v) : tables.v[i].t # "string"
    THEN [threw |-> TRUE, val |-> Undefined]
    ELSE [threw |-> FALSE,
          val |-> JArr(SelectSeq(detailedSchema, LAMBDA tableInfo :
                    \E i \in 1..Len(tables.v) :
                        StartsWith(ToLowerCase(CharsOf(Get(tableInfo, "table").v)),
                                   ToLowerCase(CharsOf(tables.v[i].v)))))]
\* getDetailedSchemaFromRepository(tables): threw is TRUE where tables.map or
\* t.toLowerCase raises a TypeError, else val is the filtered array
getDetailedSchemaFromRepository(tables) ==
    IF tables.t # "array" \/ \E i \in 1..Len(tables.v) : tables.v[i].t # "string"
    THEN [threw |-> TRUE, val |-> Undefined]
    ELSE LET lowercasedTables ==
                 {ToLowerCase(CharsOf(tables.v[i].v)) : i \in 1..Len(tables.v)}
         IN [threw |-> FALSE,
             val |-> JArr(SelectSeq(detailedSchema, LAMBDA tableInfo :
                        ToLowerCase(CharsOf(Get(tableInfo, "table").v))
                            \in lowercasedTables))]

IsReadOnly_NoTrim(chars) ==
    \/ StartsWith(ToLowerCase(chars), <<"s", "e", "l", "e", "c", "t">>)
    \/ StartsWith(ToLowerCase(chars), <<"w", "i", "t", "h">>)
\* the allow-list of executeQuery
IsReadOnly(chars) ==
    LET trimmedSql == ToLowerCase(Trim(chars)) IN
        \/ StartsWith(trimmedSql, <<"s", "e", "l", "e", "c", "t">>)
        \/ StartsWith(trimmedSql, <<"w", "i", "t", "h">>)

\* the measured Date.now() - startTime; no branch of the code reads it
ExecutionTimes == {7}

RejectedResult ==
    JObj(<< <<"success", JBool(FALSE)>>,
            <<"error", JStr("Only SELECT and WITH queries are allowed for security reasons")>> >>)
\* the catch block of executeQuery
CaughtResult(message, executionTime) ==
    JObj(<< <<"success", JBool(FALSE)>>, <<"error", JStr(message)>>,
            <<"executionTime", JNum(executionTime)>> >>)
\* the { data, error } of supabase.rpc with error set
ServiceErrorResult(message) ==
    JObj(<< <<"success", JBool(FALSE)>>,
            <<"error", JStr(IF message = "" THEN "Query execution failed" ELSE message)>> >>)
SuccessResult(data, executionTime) ==
    JObj(<< <<"success", JBool(TRUE)>>,
            <<"data", IF data.t \in {"null", "undefined"} THEN JArr(<<>>) ELSE data>>,
            <<"rowCount", JNum(IF data.t = "array" THEN Len(data.v) ELSE 0)>>,
            <<"executionTime", JNum(executionTime)>> >>)

\* executeQuery(sql) up to the call of the execution service: "caught" when
\* sql.trim() throws inside the try block, "rejected" by the allow-list,
\* else "dispatch"
ExecuteQueryGate(sql) ==
    IF sql.t # "string" THEN "caught"
    ELSE IF ~IsReadOnly(CharsOf(sql.v)) THEN "rejected"
    ELSE "dispatch"

(***************************************************************************)
(* The orchestrator                                                        *)
(***************************************************************************)
MAX_TURNS == 6

systemInstruction ==
    [role |-> "system", parts |-> <<[text |-> <<Word("You are a world-class data analysis agent.")>>]>>]
\* the names of toolDeclarations[0].functionDeclarations, in order
\* the names of the declarations of the tool registry, in its order
aiTools ==
    <<"get_detailed_schema", "execute_sql", "ask_clarifying_question", "refine_query">>
\* the names of the functionDeclarations sent with each request
toolDeclarations == <<"get_detailed_schema", "execute_sql", "ask_clarifying_question">>

Turn(role, text) == [role |-> role, parts |-> <<[text |-> text]>>]
\* the first user turn: the worldview map and the question
SeedTurn(question) ==
    Turn("user", <<Word("Worldview Map: ")>> \o Stringify(worldviewMap)
                 \o <<Newline, Word("Question: " \o question)>>)
PushToolResult_Replace(h, toolResultText) ==
    SubSeq(h, 1, Len(h) - 1) \o <<Turn("model", toolResultText)>>
\* history.push({ role: 'model', parts: [{ text: toolResultText }] })
PushToolResult(h, toolResultText) == Append(h, Turn("model", toolResultText))

LoopCondition_OffByOne(t) == t <= MAX_TURNS
\* while (turn < MAX_TURNS)
LoopCondition(t) == t < MAX_TURNS

RequestBody_SystemLast(h) == [contents |-> h \o <<systemInstruction>>, tools |-> toolDeclarations]
\* the body of one request
RequestBody(h) == [contents |-> <<systemInstruction>> \o h, tools |-> toolDeclarations]

TextPart(text) == [text |-> text, functionCall |-> <<>>]
CallPart(name, args) == [text |-> <<>>, functionCall |-> <<[name |-> name, args |-> args]>>]
Args(key, val) == JObj(<< <<key, val>> >>)

LastResponseText_Undefined(parts) ==
    IF parts = <<>> THEN <<Word("undefined")>>
    ELSE JoinLines([i \in 1..Len(parts) |-> parts[i].text])
\* parts.map(p => p.text).filter(Boolean).join('\n')
LastResponseText(parts) == JoinLines([i \in 1..Len(parts) |-> parts[i].text])

FirstCallIndex_Last(parts, i) ==
    IF \E j \in i..Len(parts) : parts[j].functionCall # <<>>
    THEN CHOOSE j \in i..Len(parts) :
            /\ parts[j].functionCall # <<>>
            /\ \A k \in (j + 1)..Len(parts) : parts[k].functionCall = <<>>
    ELSE 0
\* the position of the first part that has a functionCall, 0 when none has
RECURSIVE FirstCallIndex(_, _)
FirstCallIndex(parts, i) ==
    IF i > Len(parts) THEN 0
    ELSE IF parts[i].functionCall # <<>> THEN i
    ELSE FirstCallIndex(parts, i + 1)
ToolCallFound(parts) == FirstCallIndex(parts, 1) # 0
FirstCall(parts) == parts[FirstCallIndex(parts, 1)].functionCall[1]

\* the tool results
SchemaResultText(detailed) == Stringify(JObj(<< <<"detailed_schema", detailed>> >>))
QueryResultText(queryResult) == Stringify(JObj(<< <<"query_result", queryResult>> >>))
UnknownToolText_NoName(name) == Stringify(JObj(<< <<"error", JStr("Unknown tool")>> >>))
UnknownToolText(name) == Stringify(JObj(<< <<"error", JStr("Unknown tool: " \o name)>> >>))

\* the values the run returns
ClarificationValue(question) ==
    JObj(<< <<"status", JStr("clarification_needed")>>, <<"text", question>> >>)
ProtocolErrorValue(raw) ==
    JObj(<< <<"status", JStr("error")>>,
            <<"error", JStr("Non-JSON response received from Gemini. Protocol violation.")>>,
            <<"raw", raw>> >>)
LastTurnText_First(h) ==
    IF h = <<>> \/ h[1].parts = <<>> THEN Undefined ELSE JText(h[1].parts[1].text)
\* history[history.length - 1]?.parts?.[0]?.text
LastTurnText(h) ==
    IF h = <<>> \/ h[Len(h)].parts = <<>> THEN Undefined
    ELSE JText(h[Len(h)].parts[1].text)
MaxTurnsValue(h) ==
    JObj(<< <<"status", JStr("max_turns_reached")>>, <<"text", LastTurnText(h)>> >>)

(***************************************************************************)
(* What the LLM service, the SQL service and the caller may send           *)
(***************************************************************************)
\* the replies may use the whole vocabulary in the first RichTurns turns of
\* a run and the basic one afterwards
RichTurns == 1

FinalJSON ==
    Stringify(JObj(<< <<"status", JStr("final_response")>>, <<"analysis", JStr("ok")>> >>))
Texts ==
    { <<Word("Sorry, I cannot answer.")>>,
      FinalJSON,
      Stringify(JObj(<< <<"status", JStr("clarification_needed")>>,
                        <<"text", JStr("Which year?")>> >>)),
      Stringify(JObj(<< <<"status", JStr("max_turns_reached")>> >>)),
      Stringify(JObj(<< <<"status", JStr("error")>>, <<"raw", JStr("x")>> >>)),
      <<LBrace>>, <<RBrace>>, <<NumTok(1)>>, <<LitTok("null")>>, <<>> }
\* texts a reply is split into; none ends or begins inside a lexeme
SplitTexts == {<<LBrace>>, <<RBrace>>, <<Word("Sorry, I cannot answer.")>>, <<>>}

SqlInputs ==
    {"select 1", " \tSeLeCt 1\n", "With x", "withdraw", "DROP TABLE x",
     "selec", "(select 1)", "-- \nselect 1", " ", ""}
TableLists ==
    { JArr(<<JStr("ORDERS"), JStr("customers")>>), JArr(<<JStr("order")>>),
      JArr(<<JStr("nosuch"), JStr("order_items")>>), JArr(<<>>),
      JArr(<<JNum(1)>>), JStr("orders"), JNull }
UnknownNames == {"refine_query", "drop_database"}

SchemaCalls ==
    {CallPart("get_detailed_schema", Args("tables", tl)) : tl \in TableLists}
    \cup {CallPart("get_detailed_schema", a) : a \in {Undefined, JObj(<<>>)}}
SqlCalls ==
    {CallPart("execute_sql", Args("sql", JStr(q))) : q \in SqlInputs}
    \cup {CallPart("execute_sql", a) : a \in {Undefined, JObj(<<>>), Args("sql", JNum(1))}}
ClarifyCalls ==
    {CallPart("ask_clarifying_question", a) :
        a \in {Args("question", JStr("Which year?")), JObj(<<>>), Undefined}}
UnknownCalls ==
    {CallPart(n, a) : n \in UnknownNames, a \in {Undefined, Args("query", JStr("select 1"))}}
Calls == SchemaCalls \cup SqlCalls \cup ClarifyCalls \cup UnknownCalls

BasicParts ==
    { TextPart(FinalJSON), TextPart(<<Word("Sorry, I cannot answer.")>>),
      CallPart("get_detailed_schema", Args("tables", JArr(<<JStr("ORDERS"), JStr("customers")>>))),
      CallPart("get_detailed_schema", Undefined),
      CallPart("execute_sql", Args("sql", JStr("DROP TABLE x"))),
      CallPart("ask_clarifying_question", Args("question", JStr("Which year?"))),
      CallPart("refine_query", Undefined) }
LeadParts ==
    { CallPart("ask_clarifying_question", Args("question", JStr("Which year?"))),
      CallPart("execute_sql", Args("sql", JStr("DROP TABLE x"))),
      CallPart("refine_query", Undefined) }

\* data.candidates?.[0]?.content?.parts || [] of the replies with status 200
BasicPartLists == {<<p>> : p \in BasicParts}
PartLists ==
    {<<>>}
    \cup {<<TextPart(t)>> : t \in Texts}
    \cup {<<c>> : c \in Calls}
    \cup {<<TextPart(t1), TextPart(t2)>> : t1 \in SplitTexts, t2 \in SplitTexts}
    \cup {<<TextPart(FinalJSON), c>> : c \in Calls}
    \cup {<<c, p>> : c \in LeadParts, p \in LeadParts \cup {TextPart(FinalJSON)}}
PartListsAt(t) == IF t < RichTurns THEN PartLists ELSE BasicPartLists

\* the non-success statuses of the LLM service
ErrorStatuses == {429, 500}
\* the outcomes of supabase.rpc('execute_sql', ...)
RpcData == {JArr(<<JObj(<< <<"n", JNum(1)>> >>)>>), JNull}
RpcErrors == {"permission denied", ""}
RpcExceptions == {"fetch failed"}

\* the question and the history the caller passes
Question == "How many orders?"
PriorHistories == {<<>>, <<Turn("user", <<Word("Hello")>>)>>}

NoResponse == [ok |-> TRUE, status |-> 0, parts |-> <<>>]
OkResponse(parts) == [ok |-> TRUE, status |-> 200, parts |-> parts]
ErrorResponse(status) == [ok |-> FALSE, status |-> status, parts |-> <<>>]

Running == [state |-> "running", site |-> "", value |-> Undefined]
Returned(site, value) == [state |-> "returned", site |-> site, value |-> value]
Thrown(site, message) == [state |-> "thrown", site |-> site, value |-> JStr(message)]

(***************************************************************************)
(* The run as a state machine                                              *)
(***************************************************************************)
VARIABLES
    pc,             \* "loop": at the while test, "await_llm": in fetch,
                    \* "await_sql": in supabase.rpc, "done": returned or threw
    turn,           \* let turn
    history,        \* let history
    initialHistory, \* the parameter initialHistory
    request,        \* the body of the last request sent to the LLM service
    llmCalls,       \* the number of requests sent to the LLM service
    response,       \* the last response of the LLM service
    rpc,            \* the statement the SQL service is executing, if any
    sqlCalls,       \* the number of statements sent to the SQL service
    result          \* what the run returned or threw

\* the process that serves the requests of several callers
VARIABLES
    queryEngineInstance, \* let queryEngineInstance: 0 for null, else the
                         \* number of the request whose call created it
    loadAttempts,        \* the number of calls of loadSchemaAssets
    loadFailures,        \* the number of them that threw
    heap,                \* the contents of the array objects
    runs,                \* the state of each request being served
    engines,             \* the QueryEngine objects, by the number of the
                         \* request (or of the direct caller) that made them
    called               \* the last method called on an engine directly

processVars == <<queryEngineInstance, loadAttempts, loadFailures, heap, runs>>
serverVars == <<processVars, engines, called>>

\* the requests the process serves
Runs == {1, 2}
\* the array request.json() creates for body.history, and the array
\* let history = [] creates, for request r
BodyId(r) == <<"body", r>>
HistoryId(r) == <<"history", r>>
ArrayIds == {BodyId(r) : r \in Runs} \cup {HistoryId(r) : r \in Runs}
NoArray == <<"none", 0>>
\* no object yet, the object the constructor leaves, and the object after
\* loadSchemaAssets has returned; loaded records that it has returned
NoEngine == [worldviewMap |-> Undefined, detailedSchema |-> Undefined, loaded |-> FALSE]
NewEngine == [worldviewMap |-> JNull, detailedSchema |-> JArr(<<>>), loaded |-> FALSE]
LoadedEngine ==
    [worldviewMap |-> worldviewMap, detailedSchema |-> JArr(detailedSchema), loaded |-> TRUE]
NoCall == [op |-> "", loaded |-> FALSE, tables |-> Undefined, threw |-> FALSE,
           message |-> "", val |-> Undefined]
IdleRun ==
    [pc |-> "idle", question |-> "", body |-> <<>>, history |-> NoArray, turn |-> 0, engine |-> 0,
     request |-> [contents |-> <<>>, tools |-> <<>>], llmCalls |-> 0, pushed |-> <<>>,
     failuresSeen |-> 0, result |-> Running]

runVars == <<pc, turn, history, initialHistory, request, llmCalls, response, rpc, sqlCalls, result>>
vars == <<runVars, serverVars>>

Init ==
    /\ initialHistory \in PriorHistories
    /\ history = Append(initialHistory, SeedTurn(Question))
    /\ pc = "loop"
    /\ turn = 0
    /\ request = [contents |-> <<>>, tools |-> <<>>]
    /\ llmCalls = 0
    /\ queryEngineInstance = 1
    /\ loadAttempts = 1
    /\ loadFailures = 0
    /\ heap = [a \in ArrayIds |-> <<>>]
    /\ runs = [r \in Runs |-> IdleRun]
    /\ engines = [e \in Runs |-> IF e = 1 THEN LoadedEngine ELSE NoEngine]
    /\ called = NoCall
    /\ response = NoResponse
    /\ rpc = <<>>
    /\ sqlCalls = 0
    /\ result = Running

\* the run ends: return or throw
Finish(r) ==
    /\ pc' = "done"
    /\ result' = r
    /\ UNCHANGED <<turn, history, initialHistory, request, llmCalls, rpc, sqlCalls, serverVars>>

Continue_NoIncrement(toolResultText) ==
    /\ history' = PushToolResult(history, toolResultText)
    /\ turn' = turn
    /\ pc' = "loop"
    /\ rpc' = <<>>
    /\ UNCHANGED <<initialHistory, request, llmCalls, sqlCalls, result, serverVars>>
\* the tool result is pushed, the for loop is left and turn++ runs
Continue(toolResultText) ==
    /\ history' = PushToolResult(history, toolResultText)
    /\ turn' = turn + 1
    /\ pc' = "loop"
    /\ rpc' = <<>>
    /\ UNCHANGED <<initialHistory, request, llmCalls, sqlCalls, result, serverVars>>

\* the while test holds: the request is built and fetch is called
SendRequest ==
    /\ pc = "loop"
    /\ LoopCondition(turn)
    /\ request' = RequestBody(history)
    /\ llmCalls' = llmCalls + 1
    /\ pc' = "await_llm"
    /\ UNCHANGED <<turn, history, initialHistory, response, rpc, sqlCalls, result, serverVars>>

ReturnMaxTurns_Early ==
    /\ pc = "loop"
    /\ turn >= MAX_TURNS - 1
    /\ Finish(Returned("max_turns", MaxTurnsValue(history)))
    /\ UNCHANGED response
\* the while test fails: the max-turns value is returned
ReturnMaxTurns ==
    /\ pc = "loop"
    /\ ~LoopCondition(turn)
    /\ Finish(Returned("max_turns", MaxTurnsValue(history)))
    /\ UNCHANGED response

ReceiveError_Retry ==
    /\ pc = "await_llm"
    /\ \E status \in ErrorStatuses : response' = ErrorResponse(status)
    /\ pc' = "loop"
    /\ UNCHANGED <<turn, history, initialHistory, request, llmCalls, rpc, sqlCalls, result, serverVars>>
\* if (!response.ok) throw
ReceiveError ==
    /\ pc = "await_llm"
    /\ \E status \in ErrorStatuses : response' = ErrorResponse(status)
    /\ Finish(Thrown("gemini_error", "Gemini API error"))

\* fetch or response.json() rejects: the exception leaves the run
FetchFails ==
    /\ pc = "await_llm"
    /\ response' = NoResponse
    /\ Finish(Thrown("fetch_error", "fetch failed"))

\* the part lists the LLM service may answer the pending request with
Replies == IF pc = "await_llm" THEN PartListsAt(turn) ELSE {}

\* a response with status 200 arrives
Receive(parts) ==
    /\ pc = "await_llm"
    /\ response' = OkResponse(parts)

\* no part is a tool call and the text parses: return parsed
ReturnFinal ==
    \E parts \in Replies :
        /\ Receive(parts)
        /\ ~ToolCallFound(parts)
        /\ JSONParse(LastResponseText(parts)).ok
        /\ Finish(Returned("final", JSONParse(LastResponseText(parts)).val))

\* no part is a tool call and JSON.parse throws: the catch block
ReturnProtocolError ==
    \E parts \in Replies :
        /\ Receive(parts)
        /\ ~ToolCallFound(parts)
        /\ ~JSONParse(LastResponseText(parts)).ok
        /\ Finish(Returned("protocol_error",
                           ProtocolErrorValue(JText(LastResponseText(parts)))))

ReturnClarification_Continue ==
    \E parts \in Replies :
        /\ Receive(parts)
        /\ ToolCallFound(parts)
        /\ LET call == FirstCall(parts) IN
            /\ call.name = "ask_clarifying_question"
            /\ ~ThrowsOnAccess(call.args)
            /\ Continue(Stringify(JObj(<< <<"clarification", Get(call.args, "question")>> >>)))
\* ask_clarifying_question: return at once
ReturnClarification ==
    \E parts \in Replies :
        /\ Receive(parts)
        /\ ToolCallFound(parts)
        /\ LET call == FirstCall(parts) IN
            /\ call.name = "ask_clarifying_question"
            /\ ~ThrowsOnAccess(call.args)
            /\ Finish(Returned("clarification",
                               ClarificationValue(Get(call.args, "question"))))

\* call.args.tables, call.args.sql, call.args.question on a call without
\* args, and tables.map or t.toLowerCase on a value that has none: a
\* TypeError leaves the run
ThrowTypeError ==
    \E parts \in Replies :
        /\ Receive(parts)
        /\ ToolCallFound(parts)
        /\ LET call == FirstCall(parts) IN
            /\ call.name \in {"get_detailed_schema", "execute_sql", "ask_clarifying_question"}
            /\ \/ ThrowsOnAccess(call.args)
               \/ /\ call.name = "get_detailed_schema"
                  /\ getDetailedSchemaFromRepository(Get(call.args, "tables")).threw
            /\ Finish(Thrown("type_error", "TypeError"))

\* get_detailed_schema
DispatchSchema ==
    \E parts \in Replies :
        /\ Receive(parts)
        /\ ToolCallFound(parts)
        /\ LET call == FirstCall(parts) IN
            /\ call.name = "get_detailed_schema"
            /\ ~ThrowsOnAccess(call.args)
            /\ LET detailed == getDetailedSchemaFromRepository(Get(call.args, "tables")) IN
                /\ ~detailed.threw
                /\ Continue(SchemaResultText(detailed.val))

\* execute_sql with a statement executeQuery answers without the service
DispatchSqlLocal ==
    \E parts \in Replies, executionTime \in ExecutionTimes :
        /\ Receive(parts)
        /\ ToolCallFound(parts)
        /\ LET call == FirstCall(parts) IN
            /\ call.name = "execute_sql"
            /\ ~ThrowsOnAccess(call.args)
            /\ LET gate == ExecuteQueryGate(Get(call.args, "sql")) IN
                \/ /\ gate = "rejected"
                   /\ Continue(QueryResultText(RejectedResult))
                \/ /\ gate = "caught"
                   /\ Continue(QueryResultText(CaughtResult("TypeError", executionTime)))

DispatchSqlRemote_NotAwaited ==
    \E parts \in Replies :
        /\ Receive(parts)
        /\ ToolCallFound(parts)
        /\ LET call == FirstCall(parts) IN
            /\ call.name = "execute_sql"
            /\ ~ThrowsOnAccess(call.args)
            /\ ExecuteQueryGate(Get(call.args, "sql")) = "dispatch"
            /\ rpc' = <<Get(call.args, "sql").v>>
            /\ sqlCalls' = sqlCalls + 1
            /\ history' = PushToolResult(history, QueryResultText(JObj(<<>>)))
            /\ turn' = turn + 1
            /\ pc' = "loop"
            /\ UNCHANGED <<initialHistory, request, llmCalls, result, serverVars>>
\* execute_sql with a statement the allow-list lets through: supabase.rpc
DispatchSqlRemote ==
    \E parts \in Replies :
        /\ Receive(parts)
        /\ ToolCallFound(parts)
        /\ LET call == FirstCall(parts) IN
            /\ call.name = "execute_sql"
            /\ ~ThrowsOnAccess(call.args)
            /\ ExecuteQueryGate(Get(call.args, "sql")) = "dispatch"
            /\ rpc' = <<Get(call.args, "sql").v>>
            /\ sqlCalls' = sqlCalls + 1
            /\ pc' = "await_sql"
            /\ UNCHANGED <<turn, history, initialHistory, request, llmCalls, result, serverVars>>

\* any other tool name
DispatchUnknown ==
    \E parts \in Replies :
        /\ Receive(parts)
        /\ ToolCallFound(parts)
        /\ LET call == FirstCall(parts) IN
            /\ call.name \notin {"get_detailed_schema", "execute_sql", "ask_clarifying_question"}
            /\ Continue(UnknownToolText(call.name))

\* supabase.rpc answers with data
RpcReturnsData ==
    /\ pc = "await_sql"
    /\ \E data \in RpcData, executionTime \in ExecutionTimes :
        Continue(QueryResultText(SuccessResult(data, executionTime)))
    /\ UNCHANGED response

RpcReturnsError_Fatal ==
    /\ pc = "await_sql"
    /\ \E message \in RpcErrors : Finish(Thrown("sql_error", message))
    /\ UNCHANGED response
\* supabase.rpc answers with an error
RpcReturnsError ==
    /\ pc = "await_sql"
    /\ \E message \in RpcErrors : Continue(QueryResultText(ServiceErrorResult(message)))
    /\ UNCHANGED response

RpcThrows_Propagates ==
    /\ pc = "await_sql"
    /\ \E message \in RpcExceptions : Finish(Thrown("sql_error", message))
    /\ UNCHANGED response
\* supabase.rpc throws
RpcThrows ==
    /\ pc = "await_sql"
    /\ \E message \in RpcExceptions, executionTime \in ExecutionTimes :
        Continue(QueryResultText(CaughtResult(message, executionTime)))
    /\ UNCHANGED response

Next ==
    \/ SendRequest
    \/ ReturnMaxTurns
    \/ ReceiveError
    \/ FetchFails
    \/ ReturnFinal
    \/ ReturnProtocolError
    \/ ReturnClarification
    \/ ThrowTypeError
    \/ DispatchSchema
    \/ DispatchSqlLocal
    \/ DispatchSqlRemote
    \/ DispatchUnknown
    \/ RpcReturnsData
    \/ RpcReturnsError
    \/ RpcThrows

Spec == Init /\ [][Next]_vars

\* every pending call returns and the continuation then runs
FairSpec == Spec /\ WF_vars(Next)

(***************************************************************************)
(* The chat endpoint, a caller of the query route                          *)
(***************************************************************************)
\* a value that counts as true in value || fallback
Truthy(val) ==
    CASE val.t \in {"undefined", "null"} -> FALSE
      [] val.t = "boolean" -> val.v
      [] val.t = "number" -> val.v # 0
      [] val.t = "string" -> val.v # ""
      [] val.t = "text" -> val.v # <<>>
      [] val.t \in {"object", "array"} -> TRUE
UnableText == JStr("I was unable to process your data request.")
ErrorText == JStr("I encountered an error while trying to process your data request.")
UnavailableText == JStr("The data analysis service seems to be unavailable right now.")
\* responseText of the chat endpoint for a data question, given how the
\* run of the query route ended: a raised error is answered with status
\* 500, a returned value is the JSON body queryData, and queryData.text
\* throws into the catch when the body is null
ChatResponseText(res) ==
    IF res.state = "thrown" THEN ErrorText
    ELSE IF ThrowsOnAccess(res.value) THEN UnavailableText
    ELSE IF Truthy(Get(res.value, "text")) THEN Get(res.value, "text")
    ELSE UnableText

(***************************************************************************)
(* The process: requests served concurrently                               *)
(***************************************************************************)
\* the questions of the callers: the second request repeats the question
\* of the first or asks another one
Questions(r) == IF r = 1 THEN {Question} ELSE {Question, "Which customers?"}
\* the tool calls the LLM service answers with while several requests run
ConcurrentCalls ==
    { CallPart("get_detailed_schema", Args("tables", JArr(<<JStr("ORDERS"), JStr("customers")>>))),
      CallPart("refine_query", Undefined) }
ConcurrentCallsAt(t) ==
    IF t < RichTurns THEN ConcurrentCalls ELSE {CallPart("refine_query", Undefined)}
\* toolResultText for a call of ConcurrentCalls
ToolResultText(call) ==
    IF call.name = "get_detailed_schema"
    THEN SchemaResultText(getDetailedSchemaFromRepository(Get(call.args, "tables")).val)
    ELSE UnknownToolText(call.name)

HistoryOf_Shared(r, initial) == HistoryId(1)
\* let history = []; if (initialHistory && initialHistory.length > 0)
\* history = initialHistory: the array the run pushes to
HistoryOf(r, initial) == IF Len(initial) > 0 THEN BodyId(r) ELSE HistoryId(r)

\* what loadSchemaAssets may do to an engine: both assets read and parsed,
\* or a failure before worldviewMap is assigned, or a failure of the second
\* JSON.parse, after worldviewMap was assigned
LoadOutcomes(engine) ==
    { [ok |-> TRUE, engine |-> LoadedEngine],
      [ok |-> FALSE, engine |-> engine],
      [ok |-> FALSE, engine |-> [engine EXCEPT !.worldviewMap = worldviewMap]] }
\* getWorldviewMap() on an engine
getWorldviewMap(engine) ==
    IF ~Truthy(engine.worldviewMap)
    THEN [threw |-> TRUE, val |-> Undefined,
          message |-> "Worldview map has not been loaded. Call loadSchemaAssets() first."]
    ELSE [threw |-> FALSE, val |-> engine.worldviewMap, message |-> ""]
\* getDetailedSchemaFromRepository(tables) on an engine, whatever its
\* detailedSchema holds
getDetailedSchemaOf(engine, tables) ==
    IF ~Truthy(engine.detailedSchema)
    THEN [threw |-> TRUE, val |-> Undefined,
          message |-> "Detailed schema has not been loaded. Call loadSchemaAssets() first."]
    ELSE IF tables.t # "array" \/ \E i \in 1..Len(tables.v) : tables.v[i].t # "string"
    THEN [threw |-> TRUE, val |-> Undefined, message |-> "TypeError"]
    ELSE LET lowercasedTables ==
                 {ToLowerCase(CharsOf(tables.v[i].v)) : i \in 1..Len(tables.v)}
         IN [threw |-> FALSE, message |-> "",
             val |-> JArr(SelectSeq(engine.detailedSchema.v, LAMBDA tableInfo :
                        ToLowerCase(CharsOf(Get(tableInfo, "table").v))
                            \in lowercasedTables))]

ServerInit ==
    /\ queryEngineInstance = 0
    /\ loadAttempts = 0
    /\ loadFailures = 0
    /\ heap = [a \in ArrayIds |-> <<>>]
    /\ runs = [r \in Runs |-> IdleRun]
    /\ engines = [e \in Runs |-> NoEngine]
    /\ called = NoCall
    /\ pc = "idle"
    /\ turn = 0
    /\ history = <<>>
    /\ initialHistory = <<>>
    /\ request = [contents |-> <<>>, tools |-> <<>>]
    /\ llmCalls = 0
    /\ response = NoResponse
    /\ rpc = <<>>
    /\ sqlCalls = 0
    /\ result = Running

\* POST: the body is parsed, the orchestrator is called and calls
\* getQueryEngine, which returns the instance or, when there is none, makes
\* a QueryEngine and starts its loadSchemaAssets
Post(r) ==
    /\ runs[r].pc = "idle"
    /\ \E question \in Questions(r), body \in PriorHistories :
        /\ heap' = [heap EXCEPT ![BodyId(r)] = body]
        /\ runs' = [runs EXCEPT ![r] =
                        [@ EXCEPT !.pc = IF queryEngineInstance = 0 THEN "loading" ELSE "engine_ready",
                                  !.engine = queryEngineInstance,
                                  !.question = question,
                                  !.body = body,
                                  !.failuresSeen = loadFailures]]
    /\ loadAttempts' = IF queryEngineInstance = 0 THEN loadAttempts + 1 ELSE loadAttempts
    /\ engines' = IF queryEngineInstance = 0 THEN [engines EXCEPT ![r] = NewEngine] ELSE engines
    /\ UNCHANGED <<queryEngineInstance, loadFailures, runVars, called>>

LoadSchemaAssetsFails_Publishes(r) ==
    /\ runs[r].pc = "loading"
    /\ \E outcome \in {o \in LoadOutcomes(engines[r]) : ~o.ok} :
        engines' = [engines EXCEPT ![r] = outcome.engine]
    /\ runs' = [runs EXCEPT ![r] =
                    [@ EXCEPT !.pc = "done",
                              !.result = Thrown("load_error", "Could not initialize QueryEngine")]]
    /\ loadFailures' = loadFailures + 1
    /\ queryEngineInstance' = r
    /\ UNCHANGED <<loadAttempts, heap, runVars, called>>
\* loadSchemaAssets throws: the exception leaves getQueryEngine and the
\* orchestrator, and queryEngineInstance keeps its value
LoadSchemaAssetsFails(r) ==
    /\ runs[r].pc = "loading"
    /\ \E outcome \in {o \in LoadOutcomes(engines[r]) : ~o.ok} :
        engines' = [engines EXCEPT ![r] = outcome.engine]
    /\ runs' = [runs EXCEPT ![r] =
                    [@ EXCEPT !.pc = "done",
                              !.result = Thrown("load_error", "Could not initialize QueryEngine")]]
    /\ loadFailures' = loadFailures + 1
    /\ UNCHANGED <<queryEngineInstance, loadAttempts, heap, runVars, called>>

\* loadSchemaAssets returns: queryEngineInstance = engine, which is returned
LoadSchemaAssetsSucceeds(r) ==
    /\ runs[r].pc = "loading"
    /\ \E outcome \in {o \in LoadOutcomes(engines[r]) : o.ok} :
        engines' = [engines EXCEPT ![r] = outcome.engine]
    /\ queryEngineInstance' = r
    /\ runs' = [runs EXCEPT ![r] = [@ EXCEPT !.pc = "engine_ready", !.engine = r]]
    /\ UNCHANGED <<loadAttempts, loadFailures, heap, runVars, called>>

\* getQueryEngine has returned: getWorldviewMap is called, and when it
\* returns the history is set up and the first user turn is pushed
StartRun(r) ==
    /\ runs[r].pc = "engine_ready"
    /\ LET map == getWorldviewMap(engines[runs[r].engine])
           array == HistoryOf(r, heap[BodyId(r)])
           seed == SeedTurn(runs[r].question)
       IN  IF map.threw
           THEN /\ runs' = [runs EXCEPT ![r] =
                            [@ EXCEPT !.pc = "done",
                                      !.result = Thrown("worldview_error", map.message)]]
                /\ UNCHANGED heap
           ELSE /\ heap' = [heap EXCEPT ![array] = Append(@, seed)]
                /\ runs' = [runs EXCEPT ![r] =
                            [@ EXCEPT !.pc = "loop", !.history = array, !.pushed = <<seed>>]]
    /\ UNCHANGED <<queryEngineInstance, loadAttempts, loadFailures, runVars, engines, called>>

RunSendRequest(r) ==
    /\ runs[r].pc = "loop"
    /\ LoopCondition(runs[r].turn)
    /\ runs' = [runs EXCEPT ![r] =
                    [@ EXCEPT !.pc = "await_llm",
                              !.request = RequestBody(heap[runs[r].history]),
                              !.llmCalls = @ + 1]]
    /\ UNCHANGED <<queryEngineInstance, loadAttempts, loadFailures, heap, runVars, engines, called>>

RunReturnMaxTurns(r) ==
    /\ runs[r].pc = "loop"
    /\ ~LoopCondition(runs[r].turn)
    /\ runs' = [runs EXCEPT ![r] =
                    [@ EXCEPT !.pc = "done",
                              !.result = Returned("max_turns", MaxTurnsValue(heap[runs[r].history]))]]
    /\ UNCHANGED <<queryEngineInstance, loadAttempts, loadFailures, heap, runVars, engines, called>>

\* the response holds a tool call: its result is pushed and turn++ runs
RunDispatch(r) ==
    /\ runs[r].pc = "await_llm"
    /\ \E call \in ConcurrentCallsAt(runs[r].turn) :
        LET toolResultText == ToolResultText(FirstCall(<<call>>)) IN
            /\ heap' = [heap EXCEPT ![runs[r].history] = PushToolResult(@, toolResultText)]
            /\ runs' = [runs EXCEPT ![r] =
                            [@ EXCEPT !.pc = "loop",
                                      !.turn = @ + 1,
                                      !.pushed = Append(@, Turn("model", toolResultText))]]
    /\ UNCHANGED <<queryEngineInstance, loadAttempts, loadFailures, runVars, engines, called>>

\* the response is the final answer
RunReturnFinal(r) ==
    /\ runs[r].pc = "await_llm"
    /\ runs' = [runs EXCEPT ![r] =
                    [@ EXCEPT !.pc = "done",
                              !.result = Returned("final", JSONParse(LastResponseText(<<TextPart(FinalJSON)>>)).val)]]
    /\ UNCHANGED <<queryEngineInstance, loadAttempts, loadFailures, heap, runVars, engines, called>>

\* the LLM service answers with a non-success status
RunReceiveError(r) ==
    /\ runs[r].pc = "await_llm"
    /\ runs' = [runs EXCEPT ![r] =
                    [@ EXCEPT !.pc = "done", !.result = Thrown("gemini_error", "Gemini API error")]]
    /\ UNCHANGED <<queryEngineInstance, loadAttempts, loadFailures, heap, runVars, engines, called>>

ServerNext ==
    \/ \E r \in Runs : Post(r)
    \/ \E r \in Runs : LoadSchemaAssetsFails(r)
    \/ \E r \in Runs : LoadSchemaAssetsSucceeds(r)
    \/ \E r \in Runs : StartRun(r)
    \/ \E r \in Runs : RunSendRequest(r)
    \/ \E r \in Runs : RunReturnMaxTurns(r)
    \/ \E r \in Runs : RunDispatch(r)
    \/ \E r \in Runs : RunReturnFinal(r)
    \/ \E r \in Runs : RunReceiveError(r)

ServerSpec == ServerInit /\ [][ServerNext]_vars

(***************************************************************************)
(* The QueryEngine class used directly                                     *)
(***************************************************************************)
\* new QueryEngine()
Construct(e) ==
    /\ engines[e] = NoEngine
    /\ engines' = [engines EXCEPT ![e] = NewEngine]
    /\ UNCHANGED <<runVars, processVars, called>>

\* await engine.loadSchemaAssets()
LoadSchemaAssets(e) ==
    /\ engines[e] # NoEngine
    /\ \E outcome \in LoadOutcomes(engines[e]) :
        /\ engines' = [engines EXCEPT ![e] = outcome.engine]
        /\ called' = [op |-> "loadSchemaAssets", loaded |-> engines[e].loaded,
                      tables |-> Undefined, threw |-> ~outcome.ok,
                      message |-> IF outcome.ok THEN "" ELSE "Could not initialize QueryEngine",
                      val |-> Undefined]
    /\ UNCHANGED <<runVars, processVars>>

\* engine.getWorldviewMap()
CallGetWorldviewMap(e) ==
    /\ engines[e] # NoEngine
    /\ LET map == getWorldviewMap(engines[e]) IN
        called' = [op |-> "getWorldviewMap", loaded |-> engines[e].loaded,
                   tables |-> Undefined, threw |-> map.threw, message |-> map.message,
                   val |-> map.val]
    /\ UNCHANGED <<runVars, processVars, engines>>

\* engine.getDetailedSchemaFromRepository(tables)
CallGetDetailedSchemaFromRepository(e) ==
    /\ engines[e] # NoEngine
    /\ \E tables \in TableLists :
        LET detailed == getDetailedSchemaOf(engines[e], tables) IN
            called' = [op |-> "getDetailedSchemaFromRepository", loaded |-> engines[e].loaded,
                       tables |-> tables, threw |-> detailed.threw,
                       message |-> detailed.message, val |-> detailed.val]
    /\ UNCHANGED <<runVars, processVars, engines>>

EngineNext ==
    \/ \E e \in Runs : Construct(e)
    \/ \E e \in Runs : LoadSchemaAssets(e)
    \/ \E e \in Runs : CallGetWorldviewMap(e)
    \/ \E e \in Runs : CallGetDetailedSchemaFromRepository(e)

EngineSpec == ServerInit /\ [][EngineNext]_vars

(***************************************************************************)
(* Properties                                                              *)
(***************************************************************************)
\* a step in which the pending response of the LLM service is processed
Received == pc = "await_llm" /\ pc' # "await_llm"
\* the tool names the loop branches on
HandledNames == {"get_detailed_schema", "execute_sql", "ask_clarifying_question"}
\* the text of the last turn of h
LastText(h) == h[Len(h)].parts[1].text

\* C1: every run sends at most MAX_TURNS requests to the LLM service,
\* whatever the service answers
C1_AtMostMaxTurnsRequests == llmCalls <= MAX_TURNS
\* a run whose every response was a tool call has sent MAX_TURNS requests
C1_Witness ==
    pc = "done" /\ result.site = "max_turns" /\ llmCalls = MAX_TURNS

\* C2: every run eventually ends in one of the five outcomes: final answer,
\* clarification needed, max turns reached, protocol error, raised
\* transport error
C2_EndsInListedOutcome ==
    <>(pc = "done" /\ result.site \in
        {"final", "clarification", "max_turns", "protocol_error", "gemini_error",
         "fetch_error"})

\* C3: the history of a request is the history of the request before it
\* with zero or one turns appended
C3_HistoryGrowsByAppend ==
    [][(llmCalls >= 1 /\ llmCalls' = llmCalls + 1) =>
        /\ Len(request'.contents) - Len(request.contents) \in {0, 1}
        /\ SubSeq(request'.contents, 1, Len(request.contents)) = request.contents]_vars
\* a third request has been sent, two turns longer than the first
C3_Witness ==
    llmCalls = 3 /\ Len(request.contents) = Len(initialHistory) + 4

\* C4: a response whose first tool call is ask_clarifying_question with
\* question q ends the run with the clarification value carrying q, and
\* nothing is requested, dispatched or appended from then on
C4_ClarificationEndsRun ==
    /\ [][(Received /\ response'.ok /\ ToolCallFound(response'.parts)
            /\ FirstCall(response'.parts).name = "ask_clarifying_question"
            /\ Get(FirstCall(response'.parts).args, "question").t = "string") =>
            /\ pc' = "done"
            /\ result'.state = "returned"
            /\ Get(result'.value, "status") = JStr("clarification_needed")
            /\ Get(result'.value, "text") = Get(FirstCall(response'.parts).args, "question")
            /\ UNCHANGED <<history, llmCalls, sqlCalls, turn>>]_vars
    /\ [][result.site = "clarification" => UNCHANGED <<history, llmCalls, sqlCalls, pc>>]_vars
\* the question is asked in the MAX_TURNS-th response, after a text part
C4_Witness ==
    /\ result.site = "clarification"
    /\ llmCalls = MAX_TURNS
    /\ Get(result.value, "text") = JStr("Which year?")
C4_WitnessAfterText ==
    /\ result.site = "clarification"
    /\ Len(response.parts) = 2
    /\ response.parts[1].text # <<>>

\* the texts of the parts one after the other
RECURSIVE ConcatTexts(_, _)
ConcatTexts(parts, i) ==
    IF i > Len(parts) THEN <<>> ELSE parts[i].text \o ConcatTexts(parts, i + 1)

\* C5: a response without tool call whose text is not valid JSON ends the
\* run with the protocol-error value whose raw is that text unmodified
C5_RawIsResponseText ==
    (pc = "done" /\ response.status = 200 /\ ~ToolCallFound(response.parts)
        /\ ~JSONParse(ConcatTexts(response.parts, 1)).ok) =>
        /\ result.site = "protocol_error"
        /\ Get(result.value, "raw") = JText(ConcatTexts(response.parts, 1))

\* C6: the status tag of the returned value tells the outcome: it is
\* clarification_needed, max_turns_reached or error only for a clarifying
\* question, an exhausted turn budget or a non-JSON final text
C6_TagsTellOutcomes ==
    (pc = "done" /\ result.state = "returned") =>
        LET tag == Get(result.value, "status") IN
            /\ tag = JStr("clarification_needed") => result.site = "clarification"
            /\ tag = JStr("max_turns_reached") => result.site = "max_turns"
            /\ tag = JStr("error") => result.site = "protocol_error"

\* C7: whatever the LLM service puts in a successful response (an unknown
\* tool, missing or malformed arguments, a non-JSON text), the run throws
\* nothing: only a failed request makes it throw
C7_OnlyTransportErrorsThrown ==
    result.state = "thrown" => result.site \in {"gemini_error", "fetch_error"}

\* C8: a non-success status ends the run at once with a thrown error; the
\* request is not sent again and nothing is requested or dispatched after
C8_FailureIsFatal ==
    /\ [][(Received /\ ~response'.ok) =>
            /\ pc' = "done"
            /\ result'.state = "thrown"
            /\ UNCHANGED <<history, llmCalls, sqlCalls, turn>>]_vars
    /\ [][result.site = "gemini_error" => UNCHANGED <<history, llmCalls, sqlCalls, pc, result>>]_vars
\* the third request of a run fails
C8_Witness ==
    pc = "done" /\ result.site = "gemini_error" /\ ~response.ok /\ llmCalls = 3

\* the statement begins, after leading white space and in any letter case,
\* with the keyword
BeginsWith(chars, keyword) ==
    \E k \in 0..Len(chars) :
        /\ \A i \in 1..k : chars[i] \in WhiteSpace
        /\ Len(chars) >= k + Len(keyword)
        /\ \A j \in 1..Len(keyword) : chars[k + j] \in keyword[j]
Select == <<{"s", "S"}, {"e", "E"}, {"l", "L"}, {"e", "E"}, {"c", "C"}, {"t", "T"}>>
With == <<{"w", "W"}, {"i", "I"}, {"t", "T"}, {"h", "H"}>>

\* C9: the SQL service is contacted exactly for the statements that begin
\* with select or with; for any other statement the result has
\* success=false and the service is not contacted
C9_GateDecidesContact ==
    /\ [][(Received /\ response'.ok /\ ToolCallFound(response'.parts)
            /\ FirstCall(response'.parts).name = "execute_sql"
            /\ Get(FirstCall(response'.parts).args, "sql").t = "string") =>
            LET chars == CharsOf(Get(FirstCall(response'.parts).args, "sql").v) IN
                IF BeginsWith(chars, Select) \/ BeginsWith(chars, With)
                THEN sqlCalls' = sqlCalls + 1
                ELSE /\ sqlCalls' = sqlCalls
                     /\ Len(history') = Len(history) + 1
                     /\ Get(Get(JSONParse(LastText(history')).val, "query_result"), "success")
                            = JBool(FALSE)]_vars
    /\ [][sqlCalls' # sqlCalls =>
            /\ Received
            /\ FirstCall(response'.parts).name = "execute_sql"]_vars
\* a statement with leading white space and mixed case reached the service
C9_Witness == sqlCalls = 1 /\ rpc = <<" \tSeLeCt 1\n">>
\* DROP TABLE x was answered without the service
C9_WitnessRejected ==
    /\ pc = "loop" /\ turn = 1 /\ sqlCalls = 0
    /\ FirstCall(response.parts) = CallPart("execute_sql", Args("sql", JStr("DROP TABLE x"))).functionCall[1]

\* C10: a first tool call with a name the loop does not handle does not
\* end the run: the turn {error: "Unknown tool: <name>"} is appended and
\* the loop goes on to the next request while fewer than MAX_TURNS were sent
C10_UnknownToolContinues ==
    /\ [][(Received /\ response'.ok /\ ToolCallFound(response'.parts)
            /\ FirstCall(response'.parts).name \notin HandledNames) =>
            /\ pc' = "loop"
            /\ result' = Running
            /\ Len(history') = Len(history) + 1
            /\ SubSeq(history', 1, Len(history)) = history
            /\ JSONParse(LastText(history')).ok
            /\ JSONParse(LastText(history')).val =
                JObj(<< <<"error", JStr("Unknown tool: " \o FirstCall(response'.parts).name)>> >>)]_vars
    /\ [](pc = "loop" /\ llmCalls < MAX_TURNS => ENABLED SendRequest)
\* the request after an unknown tool call has been sent
C10_Witness ==
    /\ pc = "await_llm" /\ llmCalls = 2
    /\ LastText(history) = UnknownToolText("drop_database")

\* two letters that differ at most in case
SameLetter(a, b) ==
    a = b \/ \E j \in 1..26 : {a, b} = {UpperCase[j], LowerCase[j]}
\* two table names that are equal ignoring letter case
EqualIgnoringCase(x, y) ==
    Len(x) = Len(y) /\ \A i \in 1..Len(x) : SameLetter(x[i], y[i])
\* the entry is the schema entry of the table called name
IsEntryOf(entry, name) ==
    EqualIgnoringCase(CharsOf(Get(entry, "table").v), CharsOf(name.v))
\* a step that processes a get_detailed_schema call for a list of names
SchemaCallReceived ==
    /\ Received /\ response'.ok /\ ToolCallFound(response'.parts)
    /\ FirstCall(response'.parts).name = "get_detailed_schema"
    /\ Get(FirstCall(response'.parts).args, "tables").t = "array"
    /\ \A i \in 1..Len(Get(FirstCall(response'.parts).args, "tables").v) :
        Get(FirstCall(response'.parts).args, "tables").v[i].t = "string"
\* the array under detailed_schema in the last turn of h
ReturnedEntries(h) == Get(JSONParse(LastText(h)).val, "detailed_schema").v

\* C11: after a get_detailed_schema call for tables that all exist, the
\* history of the next request has a turn that is valid JSON and holds the
\* entries of exactly the requested tables
C11_SchemaTurnHoldsRequestedTables ==
    /\ [][LET tables == Get(FirstCall(response'.parts).args, "tables").v IN
            (/\ SchemaCallReceived
             /\ tables # <<>>
             /\ \A i \in 1..Len(tables) :
                    \E j \in 1..Len(detailedSchema) : IsEntryOf(detailedSchema[j], tables[i])) =>
                /\ pc' = "loop"
                /\ Len(history') = Len(history) + 1
                /\ JSONParse(LastText(history')).ok
                /\ \A i \in 1..Len(tables) :
                    \E k \in 1..Len(ReturnedEntries(history')) :
                        IsEntryOf(ReturnedEntries(history')[k], tables[i])
                /\ \A k \in 1..Len(ReturnedEntries(history')) :
                    /\ \E i \in 1..Len(tables) : IsEntryOf(ReturnedEntries(history')[k], tables[i])
                    /\ \E j \in 1..Len(detailedSchema) :
                        ReturnedEntries(history')[k] = detailedSchema[j]]_vars
    /\ [][llmCalls' = llmCalls + 1 => request'.contents = <<systemInstruction>> \o history]_vars
\* the second request carries the entries of orders and Customers, asked
\* for as ORDERS and customers
C11_Witness ==
    /\ pc = "await_llm" /\ llmCalls = 2
    /\ request.contents[Len(request.contents)] =
        Turn("model", SchemaResultText(JArr(<<SchemaEntry("orders"), SchemaEntry("Customers")>>)))

\* C12: getDetailedSchemaFromRepository returns exactly the loaded entries
\* whose table name equals a requested name ignoring case, in the order of
\* the repository; a name without entry or matching only a part of a table
\* name adds nothing and raises nothing
C12_LookupIsExactIgnoringCase ==
    [][SchemaCallReceived =>
        LET tables == Get(FirstCall(response'.parts).args, "tables").v IN
            /\ result' = Running
            /\ Len(history') = Len(history) + 1
            /\ ReturnedEntries(history') =
                SelectSeq(detailedSchema, LAMBDA entry :
                    \E i \in 1..Len(tables) : IsEntryOf(entry, tables[i]))]_vars
\* nosuch is omitted, and order returned neither orders nor order_items
C12_Witness ==
    /\ pc = "loop" /\ turn = 1
    /\ FirstCall(response.parts).args = Args("tables", JArr(<<JStr("nosuch"), JStr("order_items")>>))
    /\ ReturnedEntries(history) = <<SchemaEntry("order_items")>>
C12_WitnessPartial ==
    /\ pc = "loop" /\ turn = 1
    /\ FirstCall(response.parts).args = Args("tables", JArr(<<JStr("order")>>))
    /\ ReturnedEntries(history) = <<>>

\* C13: when MAX_TURNS requests were used up without a terminal result the
\* run returns the max-turns value, and its text is the text of the last
\* turn of the history
C13_MaxTurnsReturnsLastTurnText ==
    [][(pc = "loop" /\ llmCalls = MAX_TURNS) =>
        /\ pc' = "done"
        /\ result'.state = "returned"
        /\ Get(result'.value, "status") = JStr("max_turns_reached")
        /\ Get(result'.value, "text") = JText(LastText(history))
        /\ UNCHANGED <<history, llmCalls>>]_vars
\* six tool calls, the last one for an unknown tool
C13_Witness ==
    /\ pc = "done" /\ llmCalls = MAX_TURNS
    /\ Get(result.value, "status") = JStr("max_turns_reached")
    /\ Get(result.value, "text") = JText(UnknownToolText("refine_query"))

\* the object under query_result in the last turn of h
QueryResultOf(h) == Get(JSONParse(LastText(h)).val, "query_result")
\* a step in which executeQuery returns: without the service (rejected
\* statement, failure before the call) or when the service has answered
ExecuteQueryReturns ==
    \/ pc = "await_sql"
    \/ /\ Received /\ response'.ok /\ ToolCallFound(response'.parts)
       /\ FirstCall(response'.parts).name = "execute_sql"
       /\ ~ThrowsOnAccess(FirstCall(response'.parts).args)
       /\ pc' # "await_sql"

\* C15: executeQuery never raises: each of its returns is a result pushed to
\* the history, with success=false and an error text for a rejected
\* statement, a service error or an exception, and success=true with the
\* rows otherwise
C15_ExecuteQueryNeverRaises ==
    [][ExecuteQueryReturns =>
        /\ result' = Running /\ pc' = "loop"
        /\ Len(history') = Len(history) + 1
        /\ JSONParse(LastText(history')).ok
        /\ LET queryResult == QueryResultOf(history') IN
            /\ Get(queryResult, "success").t = "boolean"
            /\ Get(queryResult, "success").v =>
                /\ pc = "await_sql"
                /\ Get(queryResult, "data").t = "array"
                /\ Get(queryResult, "error") = Undefined
            /\ ~Get(queryResult, "success").v =>
                /\ Get(queryResult, "error").t = "string"
                /\ Get(queryResult, "error").v # ""
                /\ Get(queryResult, "data") = Undefined
            /\ pc # "await_sql" => ~Get(queryResult, "success").v]_vars
\* the exception of supabase.rpc came back as a result
C15_Witness ==
    /\ pc = "loop" /\ sqlCalls = 1
    /\ QueryResultOf(history) = CaughtResult("fetch failed", 7)
C15_WitnessSuccess ==
    /\ pc = "loop" /\ sqlCalls = 1
    /\ Get(QueryResultOf(history), "success") = JBool(TRUE)

\* the tool results that report a failure of the SQL service
ServiceFailureTexts ==
    {QueryResultText(ServiceErrorResult(message)) : message \in RpcErrors}
        \cup {QueryResultText(CaughtResult(message, executionTime)) :
                message \in RpcExceptions, executionTime \in ExecutionTimes}
\* C16 as stated: after a failure of the SQL service the run has ended by
\* a raised error, so no request follows
C16_SqlFailureEndsRun ==
    (sqlCalls >= 1 /\ LastText(history) \in ServiceFailureTexts) =>
        (pc = "done" /\ result.state = "thrown")
\* C16: whatever the SQL service answers, the run goes on: the answer is
\* appended as a tool result, the turn counter advances, and while requests
\* are left the next request is sent and carries the failure
C16_SqlFailureIsToolResult ==
    /\ [][pc = "await_sql" =>
            /\ pc' = "loop" /\ result' = Running
            /\ turn' = turn + 1
            /\ Len(history') = Len(history) + 1
            /\ SubSeq(history', 1, Len(history)) = history
            /\ QueryResultOf(history') # Undefined]_vars
    /\ [][(llmCalls' = llmCalls + 1 /\ LastText(history) \in ServiceFailureTexts) =>
            request'.contents[Len(request'.contents)] = history[Len(history)]]_vars
    /\ []((pc = "loop" /\ LastText(history) \in ServiceFailureTexts /\ llmCalls < MAX_TURNS) =>
            ENABLED SendRequest)
\* a request was sent after the service had answered permission denied
C16_Witness ==
    /\ pc = "await_llm" /\ llmCalls = 2 /\ sqlCalls = 1
    /\ LastText(request.contents) = QueryResultText(ServiceErrorResult("permission denied"))

\* C18: every request carries the declarations of the tool registry, all
\* four and in its order
C18_RequestsCarryRegistryTools ==
    llmCalls >= 1 => request.tools = aiTools

\* C19: a tool call is answered with the unknown-tool error exactly when its
\* name is none of the four names of the registry
C19_UnknownToolIffNotInRegistry ==
    (pc = "loop" /\ turn >= 1 /\ response.ok /\ ToolCallFound(response.parts)) =>
        LET name == FirstCall(response.parts).name IN
            (LastText(history) = UnknownToolText(name)) <=>
                (\A i \in 1..Len(aiTools) : aiTools[i] # name)

\* the number of tool results the run has appended to h
ToolResultTurns(h) == Len(h) - Len(initialHistory) - 1
\* C20: while a request is in flight the turn counter is the number of
\* tool results appended and the number of requests completed, and a run
\* that ends with a final answer after n tool calls made n + 1 requests
C20_TurnCountsToolResults ==
    /\ pc = "await_llm" =>
        /\ turn = ToolResultTurns(history)
        /\ turn = llmCalls - 1
    /\ (pc = "done" /\ result.site = "final") =>
        /\ turn = ToolResultTurns(history)
        /\ llmCalls = turn + 1
\* a schema lookup, a statement, then the final answer: three requests
C20_Witness ==
    /\ pc = "done" /\ result.site = "final" /\ llmCalls = 3 /\ turn = 2
    /\ ReturnedEntries(SubSeq(history, 1, Len(history) - 1)) # <<>>
    /\ QueryResultOf(history) # Undefined

\* C14: two requests served at the same time push to two different
\* arrays, neither of them the body of the other, and each array and each
\* request holds what the caller sent followed by the turns of that run
\* alone, also for the same question sent twice without a history
C14_RunsShareNoHistory ==
    \A r \in Runs :
        /\ runs[r].history # NoArray =>
            /\ \A other \in Runs \ {r} :
                runs[other].history # runs[r].history /\ BodyId(other) # runs[r].history
            /\ heap[runs[r].history] = runs[r].body \o runs[r].pushed
        /\ runs[r].pc = "await_llm" =>
            /\ runs[r].request.contents = <<systemInstruction>> \o runs[r].body \o runs[r].pushed
            /\ Len(runs[r].pushed) = runs[r].turn + 1
\* the same question twice without a history, both requests in flight,
\* after tool calls that differ
C14_Witness ==
    /\ runs[1].pc = "await_llm" /\ runs[2].pc = "await_llm"
    /\ runs[1].question = runs[2].question
    /\ runs[1].body = <<>> /\ runs[2].body = <<>>
    /\ runs[1].turn = 2 /\ runs[2].turn = 1
    /\ runs[1].pushed[2] # runs[2].pushed[2]

\* C17: once loadSchemaAssets has failed, a request that arrives later is
\* refused: it ends by an error without a load and without an LLM request
C17_LoadFailureIsPermanent ==
    \A r \in Runs :
        runs[r].failuresSeen >= 1 =>
            /\ runs[r].pc = "done"
            /\ runs[r].result.state = "thrown"
            /\ runs[r].llmCalls = 0

\* the first tool call of parts in part order
FirstCallPart(parts) ==
    parts[CHOOSE i \in 1..Len(parts) :
            /\ parts[i].functionCall # <<>>
            /\ \A j \in 1..(i - 1) : parts[j].functionCall = <<>>].functionCall[1]
\* a step that processes a response holding at least one tool call
ToolCallReceived ==
    /\ Received /\ response'.ok
    /\ \E i \in 1..Len(response'.parts) : response'.parts[i].functionCall # <<>>

\* C21: a response that holds tool calls is handled as its first tool call
\* alone, whatever follows or precedes it: at most one tool is dispatched
\* and one turn appended, and the run never returns the text as an answer
C21_OnlyFirstToolCallActs ==
    /\ [][ToolCallReceived =>
            LET call == FirstCallPart(response'.parts) IN
                /\ result'.site \notin {"final", "protocol_error", "max_turns"}
                /\ Len(history') <= Len(history) + 1
                /\ sqlCalls' <= sqlCalls + 1
                /\ call.name = "ask_clarifying_question" =>
                    /\ pc' = "done" /\ history' = history /\ sqlCalls' = sqlCalls
                    /\ \/ /\ result'.site = "clarification"
                          /\ Get(result'.value, "text") = Get(call.args, "question")
                       \/ result'.site = "type_error"
                /\ call.name \notin HandledNames =>
                    /\ history' = Append(history, Turn("model", UnknownToolText(call.name)))
                    /\ sqlCalls' = sqlCalls
                /\ call.name = "execute_sql" =>
                    \/ /\ pc' = "await_sql" /\ history' = history
                       /\ rpc' = <<Get(call.args, "sql").v>>
                    \/ /\ pc' = "loop" /\ sqlCalls' = sqlCalls
                       /\ Len(history') = Len(history) + 1
                       /\ Get(JSONParse(LastText(history')).val, "query_result") # Undefined
                    \/ result'.site = "type_error"
                /\ call.name = "get_detailed_schema" =>
                    /\ sqlCalls' = sqlCalls
                    /\ \/ /\ pc' = "loop" /\ Len(history') = Len(history) + 1
                          /\ Get(JSONParse(LastText(history')).val, "detailed_schema") # Undefined
                       \/ result'.site = "type_error"]_vars
    /\ [][pc = "await_sql" => (Len(history') = Len(history) + 1 /\ sqlCalls' = sqlCalls)]_vars
\* execute_sql followed by ask_clarifying_question: the statement was
\* answered and the run goes on
C21_Witness ==
    /\ pc = "loop" /\ turn = 1
    /\ response.parts = <<CallPart("execute_sql", Args("sql", JStr("DROP TABLE x"))),
                          CallPart("ask_clarifying_question", Args("question", JStr("Which year?")))>>
    /\ Get(JSONParse(LastText(history)).val, "query_result") # Undefined
\* a final text followed by a tool call: the tool call was acted on
C21_WitnessText ==
    /\ pc = "loop" /\ turn = 1
    /\ response.parts = <<TextPart(FinalJSON), CallPart("refine_query", Undefined)>>
    /\ LastText(history) = UnknownToolText("refine_query")

\* C23: every request begins with the system instruction, then the
\* caller's history in its order, then the user turn with the worldview map
\* and the question, which occurs once; the first request ends there
C23_RequestsBeginWithSeed ==
    llmCalls >= 1 =>
        /\ request.contents[1] = systemInstruction
        /\ SubSeq(request.contents, 2, Len(initialHistory) + 1) = initialHistory
        /\ request.contents[Len(initialHistory) + 2] = SeedTurn(Question)
        /\ {i \in 1..Len(request.contents) : request.contents[i] = SeedTurn(Question)}
            = {Len(initialHistory) + 2}
        /\ {i \in 1..Len(request.contents) : request.contents[i] = systemInstruction} = {1}
        /\ llmCalls = 1 => Len(request.contents) = Len(initialHistory) + 2
        /\ Len(request.contents) = Len(initialHistory) + 1 + llmCalls
\* the third request of a run that was given a history
C23_Witness ==
    /\ pc = "await_llm" /\ llmCalls = 3 /\ initialHistory # <<>>
    /\ request.contents[3] = SeedTurn(Question)

\* C24: no statement is with the SQL service while a request is with the
\* LLM service; a statement is sent only in the step that receives the
\* response asking for it; a request is sent only when nothing is
\* outstanding and the result of the last tool call is in the history
C24_ExternalCallsAreSequential ==
    /\ [](rpc # <<>> => pc = "await_sql")
    /\ [][sqlCalls' # sqlCalls =>
            /\ sqlCalls' = sqlCalls + 1
            /\ pc = "await_llm" /\ rpc = <<>> /\ pc' = "await_sql"
            /\ response'.ok
            /\ FirstCallPart(response'.parts).name = "execute_sql"
            /\ llmCalls' = llmCalls]_vars
    /\ [][llmCalls' # llmCalls =>
            /\ llmCalls' = llmCalls + 1
            /\ pc = "loop" /\ rpc = <<>> /\ pc' = "await_llm"
            /\ Len(history) = Len(initialHistory) + 1 + llmCalls
            /\ request'.contents = <<systemInstruction>> \o history]_vars
\* a request was sent after the SQL service had answered
C24_Witness ==
    /\ pc = "await_llm" /\ llmCalls = 2 /\ sqlCalls = 1 /\ rpc = <<>>
    /\ Get(Get(JSONParse(LastText(request.contents)).val, "query_result"), "success") = JBool(TRUE)

\* C27: the max-turns value is returned only after MAX_TURNS responses
\* that each led to a tool result; when the last of the MAX_TURNS responses
\* holds no tool call or asks for clarification the run returns the final
\* answer, the protocol error or the clarification
C27_MaxTurnsOnlyAfterToolCalls ==
    /\ [](result.site = "max_turns" =>
            /\ llmCalls = MAX_TURNS
            /\ Len(history) = Len(initialHistory) + 1 + MAX_TURNS
            /\ response.ok
            /\ \E i \in 1..Len(response.parts) : response.parts[i].functionCall # <<>>
            /\ FirstCallPart(response.parts).name # "ask_clarifying_question")
    /\ [][(Received /\ llmCalls = MAX_TURNS /\ response' = OkResponse(response'.parts)) =>
            /\ (\A i \in 1..Len(response'.parts) : response'.parts[i].functionCall = <<>>) =>
                (pc' = "done" /\ result'.site \in {"final", "protocol_error"})
            /\ ((\E i \in 1..Len(response'.parts) : response'.parts[i].functionCall # <<>>)
                    /\ FirstCallPart(response'.parts).name = "ask_clarifying_question"
                    /\ ~ThrowsOnAccess(FirstCallPart(response'.parts).args)) =>
                (pc' = "done" /\ result'.site = "clarification")]_vars
\* the sixth response was a final answer
C27_Witness ==
    pc = "done" /\ llmCalls = MAX_TURNS /\ result.site = "final"
C27_WitnessMaxTurns ==
    pc = "done" /\ result.site = "max_turns"

\* C28: a response without parts ends the run with the protocol error whose
\* raw text is empty; nothing is appended and nothing is sent afterwards
C28_EmptyResponseIsProtocolError ==
    /\ [][(Received /\ response' = OkResponse(<<>>)) =>
            /\ pc' = "done"
            /\ result' = Returned("protocol_error", ProtocolErrorValue(JText(<<>>)))
            /\ UNCHANGED <<history, llmCalls, sqlCalls, turn>>]_vars
    /\ [][pc = "done" => UNCHANGED <<history, llmCalls, sqlCalls, result>>]_vars
C28_Witness ==
    /\ pc = "done" /\ response = OkResponse(<<>>) /\ llmCalls = 1
    /\ Get(result.value, "raw") = JText(<<>>)

\* C26: for a data question the chat endpoint answers with what the run
\* produced: a text made of the final answer when the run returned one, the
\* question when it asked for clarification; the 'unable to process' text
\* only when the run ended in neither way
C26_ChatShowsOrchestratorOutcome ==
    LET finalAnswer ==
            result.site = "final" /\ Get(result.value, "status") = JStr("final_response")
        clarification ==
            result.site = "clarification" /\ Truthy(Get(result.value, "text"))
    IN  (pc = "done" /\ initialHistory = <<>>) =>
            /\ finalAnswer =>
                ChatResponseText(result) \notin {UnableText, ErrorText, UnavailableText}
            /\ clarification => ChatResponseText(result) = Get(result.value, "text")
            /\ ChatResponseText(result) = UnableText => (~finalAnswer /\ ~clarification)

\* C22: whatever the interleaving of the requests, while no load has
\* failed loadSchemaAssets has been called at most once, and all requests
\* that got an engine got the same one
C22_AssetsLoadedOnce ==
    /\ loadFailures = 0 => loadAttempts <= 1
    /\ \A r1 \in Runs, r2 \in Runs :
        (runs[r1].engine # 0 /\ runs[r2].engine # 0) => runs[r1].engine = runs[r2].engine

\* C25: getDetailedSchemaFromRepository, called with some table names on an
\* engine whose loadSchemaAssets has not returned, raises the 'Detailed
\* schema has not been loaded' error
C25_UnloadedSchemaRaises ==
    (/\ called.op = "getDetailedSchemaFromRepository"
     /\ ~called.loaded
     /\ called.tables.t = "array"
     /\ called.tables.v # <<>>
     /\ \A i \in 1..Len(called.tables.v) : called.tables.v[i].t = "string") =>
        /\ called.threw
        /\ called.message = "Detailed schema has not been loaded. Call loadSchemaAssets() first."

\* an engine on which loadSchemaAssets has returned, with both assets
IsLoaded(engine) ==
    /\ engine.loaded
    /\ engine.worldviewMap.t = "object"
    /\ engine.detailedSchema = JArr(detailedSchema)
C29_WitnessUnset == loadFailures = 1 /\ queryEngineInstance = 0 /\ runs[1].pc = "done"

\* C30: the array the caller passed as priorHistory holds what it held when
\* the run began, whether it was empty or not
C30_PriorHistoryUnchanged ==
    \A r \in Runs : runs[r].pc # "idle" => heap[BodyId(r)] = runs[r].body

====
